---- MODULE Spec2Model ----
(***************************************************************************)
(* A model of the react-19-demo application: the promise caches and the    *)
(* Suspense boundaries of SuspenseDemo and ServerComponentsDemo, the       *)
(* Activity tabs of ActivityDemo, the list/detail gallery of               *)
(* ViewTransitionsDemo, and the client entry point.                        *)
(*                                                                         *)
(* Only one demo is mounted at a time (App.tsx), so each demo has its own  *)
(* specification over the shared variables:                                *)
(*   Spec          app shell, SuspenseDemo, ServerComponentsDemo, timers   *)
(*   SpecActivity  ActivityDemo with VideoPlayer and CommentDraft          *)
(*   SpecGallery   ViewTransitionsDemo                                     *)
(*   SpecEntry     main.tsx                                                *)
(*   SpecServer    the Node process: entry-server.tsx behind the SSR       *)
(*                 middleware of the Express server                        *)
(*   SpecFair      Spec with the fairness of the timer queue and of        *)
(*                 React's retry renders                                   *)
(***************************************************************************)
EXTENDS Integers, Sequences, FiniteSets, TLC

VARIABLES
    \* ---- app shell (App.tsx)
    activeDemo,
    \* ---- SuspenseDemo / ServerComponentsDemo
    userId,            \* SuspenseDemo's useState; NotMounted when unmounted
    showDemo,          \* ServerComponentsDemo's useState
    userCache,         \* Map<number, Promise>: key -> promise id or NoPromise
    postsCache,
    serverDataCache,   \* promise id or NoPromise (null)
    promises,          \* every promise object ever created; its id is its index
    suspenseView,      \* what the two Suspense boundaries of SuspenseDemo show
    serverView,        \* what the Suspense boundary of ServerComponentsDemo shows
    retryScheduled,    \* a promise a mounted boundary waits on settled; React will render
    lookups,           \* history: ids returned per cache entry since its eviction
    fetches,           \* history: fetches started per cache entry since its eviction
    evicted,           \* history: ids returned per cache entry before its eviction
    abandoned,         \* history: ids that were pending when their entry was evicted
    \* ---- ActivityDemo
    activeTab, currentTime, isPlaying, interval, text, name,
    \* ---- ViewTransitionsDemo
    items, selectedItem, dom, pendingUpdates, vtCallbacks, hasStartViewTransition,
    afterSnapshot, ops, trace,
    \* ---- main.tsx
    rootNodes, pc, hydrateRootCalls, createRootCalls,
    \* ---- the server process (entry-server.tsx, SSR middleware)
    serverUserCache,   \* userCache of the module instance loaded in Node
    serverPostsCache,
    serverPromises,    \* promises created in the server process, with their timers
    request,           \* history: the last request handled and what went wrong in it
    response,          \* what res.status(...).send/end answered to it
    served             \* number of requests handled

varsApp      == <<activeDemo>>
varsSuspense == <<userId, showDemo, userCache, postsCache, serverDataCache, promises,
                  suspenseView, serverView, retryScheduled, lookups, fetches, evicted, abandoned>>
varsActivity == <<activeTab, currentTime, isPlaying, interval, text, name>>
varsGallery  == <<items, selectedItem, dom, pendingUpdates, vtCallbacks,
                  hasStartViewTransition, afterSnapshot, ops, trace>>
varsEntry    == <<rootNodes, pc, hydrateRootCalls, createRootCalls>>
varsServer   == <<serverUserCache, serverPostsCache, serverPromises, request, response,
                  served>>
vars         == <<varsApp, varsSuspense, varsActivity, varsGallery, varsEntry, varsServer>>

----------------------------------------------------------------------------
(* Bounds of the model *)

MaxUserId == 3        \* the 'Load User' button is pressed while userId < MaxUserId
MaxPromises == 6      \* no handler that starts a fetch runs once this many exist
Quantum == 500        \* milliseconds of timer time that pass in one Tick

(* Program constants *)

FetchUserDelay == 1500
FetchPostsDelay == 2000
FetchServerDataDelay == 800

NoPromise == 0
NotMounted == 0
Demos == {"suspense", "activity", "viewtransitions", "servercomponents"}
Keys == 1..MaxUserId
ServerKey == 0
CacheEntries == {<<c, k>> : c \in {"user", "posts"}, k \in Keys} \cup {<<"server", ServerKey>>}
EmptyCache == [k \in Keys |-> NoPromise]


----------------------------------------------------------------------------
(* Fetch simulators and promise caches (SuspenseDemo, ServerComponentsDemo) *)

\* fetchUser resolving with the first user whatever the id.
UserPayloadOfFirstUser(id) ==
    [id |-> 1, name |-> <<"User ", 1>>, email |-> <<"user", 1, "@example.com">>]

\* The value a fetch simulation resolves with: `User ${id}` is the text "User "
\* followed by the decimal digits of id, written here as the pair of the two.
UserPayload(id) ==
    [id |-> id, name |-> <<"User ", id>>, email |-> <<"user", id, "@example.com">>]

PostsPayload(id) ==
    [i \in 1..3 |-> [id |-> i, title |-> <<"Post ", i, " by user ", id>>]]

ServerDataPayload ==
    [products |->
        << [id |-> 1, name |-> "Laptop", price |-> 999,
            serverOnly |-> "Secret: Database connection string - never sent to client!"],
           [id |-> 2, name |-> "Mouse", price |-> 29,
            serverOnly |-> "Secret: API key - stays on server!"],
           [id |-> 3, name |-> "Keyboard", price |-> 79,
            serverOnly |-> "Secret: Internal server data"] >>]

\* new Promise(resolve => setTimeout(() => resolve(payload), delay)): value is
\* what the timer's callback will resolve the promise with.
fetchUser(id) ==
    [kind |-> "user", key |-> id, remaining |-> FetchUserDelay, status |-> "pending",
     value |-> UserPayload(id)]

fetchPosts(id) ==
    [kind |-> "posts", key |-> id, remaining |-> FetchPostsDelay, status |-> "pending",
     value |-> PostsPayload(id)]

fetchServerData ==
    [kind |-> "server", key |-> ServerKey, remaining |-> FetchServerDataDelay,
     status |-> "pending", value |-> ServerDataPayload]

\* getUserPromise without its has() test: every lookup starts a fetch.
getUserPromiseAlwaysFetch(cache, proms, id) ==
    [cache |-> [cache EXCEPT ![id] = Len(proms) + 1],
     proms |-> Append(proms, fetchUser(id)),
     p |-> Len(proms) + 1, started |-> TRUE]

\* A cache lookup yields the cache and the promise table after it, the promise
\* returned and whether a fetch was started.
getUserPromise(cache, proms, id) ==
    IF cache[id] = NoPromise
    THEN [cache |-> [cache EXCEPT ![id] = Len(proms) + 1],
          proms |-> Append(proms, fetchUser(id)),
          p |-> Len(proms) + 1, started |-> TRUE]
    ELSE [cache |-> cache, proms |-> proms, p |-> cache[id], started |-> FALSE]

getPostsPromise(cache, proms, id) ==
    IF cache[id] = NoPromise
    THEN [cache |-> [cache EXCEPT ![id] = Len(proms) + 1],
          proms |-> Append(proms, fetchPosts(id)),
          p |-> Len(proms) + 1, started |-> TRUE]
    ELSE [cache |-> cache, proms |-> proms, p |-> cache[id], started |-> FALSE]

getServerData(cache, proms) ==
    IF cache = NoPromise
    THEN [cache |-> Len(proms) + 1,
          proms |-> Append(proms, fetchServerData),
          p |-> Len(proms) + 1, started |-> TRUE]
    ELSE [cache |-> cache, proms |-> proms, p |-> cache, started |-> FALSE]

\* A delete that leaves the entry in the cache.
MapDeleteKeepsEntry(cache, k) == cache

\* userCache.delete(k), postsCache.delete(k): no error when k is absent.
MapDelete(cache, k) == [cache EXCEPT ![k] = NoPromise]

\* History of a lookup of cache entry e that returned promise p.
LoggedLookup(lk, e, p) == [lk EXCEPT ![e] = @ \cup {p}]
LoggedFetch(ft, e, started) == [ft EXCEPT ![e] = IF started THEN @ + 1 ELSE @]
\* History of an eviction of cache entry e (Map.delete, or the cache set to null).
EvictedLookups(lk, e) == [lk EXCEPT ![e] = {}]
EvictedFetches(ft, e) == [ft EXCEPT ![e] = 0]
EvictedBefore(ev, lk, e) == [ev EXCEPT ![e] = @ \cup lk[e]]
\* The promise p of an evicted entry, if its fetch was still in flight.
InFlight(proms, p) ==
    IF p # NoPromise /\ proms[p].status = "pending" THEN {p} ELSE {}

----------------------------------------------------------------------------
(* Suspending leaves and their boundaries *)

UnmountedLeaf == [show |-> "none", promise |-> NoPromise, reveals |-> 0]
UnmountedSuspenseView == [user |-> UnmountedLeaf, posts |-> UnmountedLeaf]

\* A use() that reads a promise without regard to its settlement.
useWithoutSuspending(proms, p) == "value"

\* use(promise): the value of a settled promise, a suspension of a pending one.
use(proms, p) == IF proms[p].status = "fulfilled" THEN "value" ELSE "suspend"

\* A boundary that keeps content it has revealed while the leaf suspends on a
\* new promise, as it would for an update made in a transition.
RenderLeafKeepsRevealedContent(old, p, proms, inTree) ==
    LET r == IF old.promise = p THEN old.reveals ELSE 0
    IN  IF ~inTree
        THEN [show |-> "hidden", promise |-> p, reveals |-> r]
        ELSE IF use(proms, p) = "value"
        THEN [show |-> "content", promise |-> p,
              reveals |-> IF old.promise = p /\ old.show = "content" THEN r ELSE r + 1]
        ELSE IF old.show = "content" THEN old
        ELSE [show |-> "fallback", promise |-> p, reveals |-> r]

\* One leaf under its nearest Suspense boundary: old is what the boundary showed,
\* p the promise the leaf is given, inTree whether the boundary itself is on
\* screen (an inner boundary is not while an outer one shows its fallback).
\* reveals counts how often the content for p was put on screen.
RenderLeaf(old, p, proms, inTree) ==
    LET r == IF old.promise = p THEN old.reveals ELSE 0
    IN  IF ~inTree
        THEN [show |-> "hidden", promise |-> p, reveals |-> r]
        ELSE IF use(proms, p) = "value"
        THEN [show |-> "content", promise |-> p,
              reveals |-> IF old.promise = p /\ old.show = "content" THEN r ELSE r + 1]
        ELSE [show |-> "fallback", promise |-> p, reveals |-> r]

\* Both leaves under the outer boundary alone: a pending posts promise shows
\* the outer fallback.
SuspenseTreeOneBoundary(old, up, pp, proms) ==
    LET both == use(proms, up) = "value" /\ use(proms, pp) = "value"
    IN  [user |-> IF both THEN RenderLeaf(old.user, up, proms, TRUE)
                  ELSE [show |-> "fallback", promise |-> up, reveals |-> 0],
         posts |-> RenderLeaf(old.posts, pp, proms, both)]

\* <Suspense fallback=user> <UserCard/> <Suspense fallback=posts> <PostsList/>
\* </Suspense> </Suspense>: the inner boundary is a child of the outer one.
SuspenseTree(old, up, pp, proms) ==
    LET userLeaf == RenderLeaf(old.user, up, proms, TRUE)
    IN  [user |-> userLeaf,
         posts |-> RenderLeaf(old.posts, pp, proms, userLeaf.show = "content")]

\* A render of SuspenseDemo with state id: both lookups are made in the body of
\* SuspenseDemo, before either leaf reads its promise.
RenderSuspenseDemo(id, uc, pcache, proms, old) ==
    LET u == getUserPromise(uc, proms, id)
        q == getPostsPromise(pcache, u.proms, id)
    IN  [userCache |-> u.cache, postsCache |-> q.cache, promises |-> q.proms,
         view |-> SuspenseTree(old, u.p, q.p, q.proms),
         userP |-> u.p, postsP |-> q.p,
         userStarted |-> u.started, postsStarted |-> q.started]

\* The effect of a render of SuspenseDemo on the state, after the caches uc and
\* pcache and the histories lk, ft were prepared by the handler.
CommitSuspenseDemo(id, uc, pcache, old, lk, ft) ==
    LET r == RenderSuspenseDemo(id, uc, pcache, promises, old)
    IN  /\ userCache' = r.userCache
        /\ postsCache' = r.postsCache
        /\ promises' = r.promises
        /\ suspenseView' = r.view
        /\ retryScheduled' = FALSE
        /\ lookups' = LoggedLookup(LoggedLookup(lk, <<"user", id>>, r.userP),
                                   <<"posts", id>>, r.postsP)
        /\ fetches' = LoggedFetch(LoggedFetch(ft, <<"user", id>>, r.userStarted),
                                  <<"posts", id>>, r.postsStarted)

\* handleChangeUser, and the render its setUserId causes.
HandleChangeUser ==
    /\ activeDemo = "suspense"
    /\ userId < MaxUserId
    /\ Len(promises) + 2 <= MaxPromises
    /\ LET newId == userId + 1
           eu == <<"user", newId>>
           ep == <<"posts", newId>>
       IN  /\ userId' = newId
           /\ evicted' = EvictedBefore(EvictedBefore(evicted, lookups, eu), lookups, ep)
           /\ abandoned' = abandoned \cup InFlight(promises, userCache[newId])
                                     \cup InFlight(promises, postsCache[newId])
           /\ CommitSuspenseDemo(newId,
                                 MapDelete(userCache, newId),
                                 MapDelete(postsCache, newId),
                                 suspenseView,
                                 EvictedLookups(EvictedLookups(lookups, eu), ep),
                                 EvictedFetches(EvictedFetches(fetches, eu), ep))
    /\ UNCHANGED <<activeDemo, showDemo, serverDataCache, serverView>>
    /\ UNCHANGED <<varsActivity, varsGallery, varsEntry, varsServer>>

\* A further render of the mounted SuspenseDemo with unchanged state: the second
\* render of StrictMode, or the retry React schedules when a promise it
\* suspended on settles.
ReRenderSuspenseDemo ==
    /\ activeDemo = "suspense"
    /\ CommitSuspenseDemo(userId, userCache, postsCache, suspenseView, lookups, fetches)
    /\ UNCHANGED <<activeDemo, userId, showDemo, serverDataCache, serverView, evicted, abandoned>>
    /\ UNCHANGED <<varsActivity, varsGallery, varsEntry, varsServer>>

\* A timer whose callback does not call resolve.
ElapsedWithoutResolve(pr) ==
    IF pr.status = "pending" /\ pr.remaining > 0
    THEN [pr EXCEPT !.remaining = IF @ - Quantum <= 0 THEN 0 ELSE @ - Quantum]
    ELSE pr

\* Quantum milliseconds pass: every running timer advances, and a timer that
\* reaches its delay resolves its promise.
Elapsed(pr) ==
    IF pr.status = "pending"
    THEN IF pr.remaining - Quantum <= 0
         THEN [pr EXCEPT !.remaining = 0, !.status = "fulfilled"]
         ELSE [pr EXCEPT !.remaining = @ - Quantum]
    ELSE pr

\* The promises the mounted boundaries were last rendered with.
Awaited ==
    {suspenseView.user.promise, suspenseView.posts.promise, serverView.promise}
        \ {NoPromise}

\* The promises the caches hold.
CachedPromises ==
    ({userCache[k] : k \in Keys} \cup {postsCache[k] : k \in Keys} \cup {serverDataCache})
        \ {NoPromise}

\* Timers with an eviction that clears the timer of the entry it removes.
TimersClearedOnEviction(proms) ==
    {i \in DOMAIN proms : proms[i].status = "pending" /\ i \in CachedPromises}

\* The timers of the timer queue: one per pending promise, set by setTimeout
\* in the fetch simulation. Nothing in the code clears a timer.
Timers(proms) == {i \in DOMAIN proms : proms[i].status = "pending"}

Tick ==
    /\ Timers(promises) # {}
    /\ promises' = [i \in DOMAIN promises |->
                        IF i \in Timers(promises) THEN Elapsed(promises[i])
                        ELSE promises[i]]
    /\ retryScheduled' = (retryScheduled \/
                            \E p \in Awaited : promises'[p].status # promises[p].status)
    /\ UNCHANGED <<activeDemo, userId, showDemo, userCache, postsCache, serverDataCache,
                   suspenseView, serverView, lookups, fetches, evicted, abandoned>>
    /\ UNCHANGED <<varsActivity, varsGallery, varsEntry, varsServer>>

----------------------------------------------------------------------------
(* ServerComponentsDemo *)

\* The effect of a render of ServerProductList under its Suspense boundary.
CommitServerProductList(cache, old, lk, ft) ==
    LET s == getServerData(cache, promises)
        e == <<"server", ServerKey>>
    IN  /\ serverDataCache' = s.cache
        /\ promises' = s.proms
        /\ serverView' = RenderLeaf(old, s.p, s.proms, TRUE)
        /\ retryScheduled' = FALSE
        /\ lookups' = LoggedLookup(lk, e, s.p)
        /\ fetches' = LoggedFetch(ft, e, s.started)

\* onClick of the demo button: serverDataCache = null; setShowDemo(!showDemo),
\* and the render that follows.
ToggleShowDemo ==
    /\ activeDemo = "servercomponents"
    /\ showDemo \/ Len(promises) + 1 <= MaxPromises
    /\ showDemo' = ~showDemo
    /\ LET e == <<"server", ServerKey>>
       IN  /\ evicted' = EvictedBefore(evicted, lookups, e)
           /\ abandoned' = abandoned \cup InFlight(promises, serverDataCache)
           /\ IF showDemo'
              THEN CommitServerProductList(NoPromise, serverView,
                                           EvictedLookups(lookups, e),
                                           EvictedFetches(fetches, e))
              ELSE /\ serverDataCache' = NoPromise
                   /\ serverView' = UnmountedLeaf
                   /\ retryScheduled' = FALSE
                   /\ lookups' = EvictedLookups(lookups, e)
                   /\ fetches' = EvictedFetches(fetches, e)
                   /\ UNCHANGED promises
    /\ UNCHANGED <<activeDemo, userId, userCache, postsCache, suspenseView>>
    /\ UNCHANGED <<varsActivity, varsGallery, varsEntry, varsServer>>

ReRenderServerProductList ==
    /\ activeDemo = "servercomponents"
    /\ showDemo
    /\ CommitServerProductList(serverDataCache, serverView, lookups, fetches)
    /\ UNCHANGED <<activeDemo, userId, showDemo, userCache, postsCache, suspenseView,
                   evicted, abandoned>>
    /\ UNCHANGED <<varsActivity, varsGallery, varsEntry, varsServer>>

----------------------------------------------------------------------------
(* ActivityDemo: VideoPlayer, CommentDraft and the three Activity boundaries *)

MaxTime == 100                       \* the slider's max, and the end of playback
Tabs == {"video", "comment", "other"}
Typed == {"", "a", "ab"}             \* what a text field may hold
SliderValues == {0, 1, 50, 99, 100}  \* where the slider may be dragged to

\* Panels rendered conditionally, {activeTab === tab && <Panel />}.
ActivityModeUnmountsHidden(tab, active) == IF active = tab THEN "visible" ELSE "unmounted"

\* <Activity mode={activeTab === tab ? "visible" : "hidden"}>
ActivityMode(tab, active) == IF active = tab THEN "visible" ELSE "hidden"

\* Effects that stay mounted in a hidden subtree.
EffectsMountedWhileHidden(mode) == TRUE

\* The Effects of a subtree are mounted while its Activity boundary is visible;
\* React destroys them (runs their cleanup) when the boundary is hidden and
\* creates them again when it is shown.
EffectsMounted(mode) == mode = "visible"

\* useEffect(() => { if (!isPlaying) return; setInterval(...); return clear },
\* [isPlaying]): whether the interval exists once the effects have run.
VideoInterval(playing, mode) == playing /\ EffectsMounted(mode)

ActivityInit ==
    /\ activeTab = "video"
    /\ currentTime = 0
    /\ isPlaying = FALSE
    /\ interval = FALSE
    /\ text = ""
    /\ name = ""

\* Tabs mounted conditionally, {activeTab === "video" && <VideoPlayer/>}: a
\* subtree that is not shown is unmounted and starts again from its initial state.
SetActiveTabConditionalMount(tab) ==
    /\ activeDemo = "activity"
    /\ activeTab' = tab
    /\ IF tab = "video" THEN UNCHANGED <<currentTime, isPlaying>>
       ELSE currentTime' = 0 /\ isPlaying' = FALSE
    /\ IF tab = "comment" THEN UNCHANGED <<text, name>>
       ELSE text' = "" /\ name' = ""
    /\ interval' = (isPlaying' /\ tab = "video")
    /\ UNCHANGED <<varsApp, varsSuspense, varsGallery, varsEntry, varsServer>>

\* onClick of a tab button: setActiveTab(tab), and the commit that follows.
SetActiveTab(tab) ==
    /\ activeDemo = "activity"
    /\ activeTab' = tab
    /\ interval' = VideoInterval(isPlaying, ActivityMode("video", tab))
    /\ UNCHANGED <<currentTime, isPlaying, text, name>>
    /\ UNCHANGED <<varsApp, varsSuspense, varsGallery, varsEntry, varsServer>>

\* onClick of the play button: setIsPlaying(!isPlaying). A hidden panel is
\* display: none and takes no input.
TogglePlay ==
    /\ activeDemo = "activity"
    /\ ActivityMode("video", activeTab) = "visible"
    /\ isPlaying' = ~isPlaying
    /\ interval' = VideoInterval(isPlaying', ActivityMode("video", activeTab))
    /\ UNCHANGED <<activeTab, currentTime, text, name>>
    /\ UNCHANGED <<varsApp, varsSuspense, varsGallery, varsEntry, varsServer>>

\* onChange of the slider: setCurrentTime(Number(e.target.value)).
Seek(v) ==
    /\ activeDemo = "activity"
    /\ ActivityMode("video", activeTab) = "visible"
    /\ currentTime' = v
    /\ UNCHANGED <<activeTab, isPlaying, interval, text, name>>
    /\ UNCHANGED <<varsApp, varsSuspense, varsGallery, varsEntry, varsServer>>

\* The interval's callback with the end of playback tested by t > 100.
IntervalTickPastTheEnd ==
    /\ activeDemo = "activity"
    /\ interval
    /\ IF currentTime > MaxTime
       THEN /\ currentTime' = 0
            /\ isPlaying' = FALSE
       ELSE /\ currentTime' = currentTime + 1
            /\ UNCHANGED isPlaying
    /\ interval' = VideoInterval(isPlaying', ActivityMode("video", activeTab))
    /\ UNCHANGED <<activeTab, text, name>>
    /\ UNCHANGED <<varsApp, varsSuspense, varsGallery, varsEntry, varsServer>>

\* The interval's callback: setCurrentTime(t => t >= 100 ? (setIsPlaying(false),
\* 0) : t + 1), and the effect cleanup that the change of isPlaying causes.
IntervalTick ==
    /\ activeDemo = "activity"
    /\ interval
    /\ IF currentTime >= MaxTime
       THEN /\ currentTime' = 0
            /\ isPlaying' = FALSE
       ELSE /\ currentTime' = currentTime + 1
            /\ UNCHANGED isPlaying
    /\ interval' = VideoInterval(isPlaying', ActivityMode("video", activeTab))
    /\ UNCHANGED <<activeTab, text, name>>
    /\ UNCHANGED <<varsApp, varsSuspense, varsGallery, varsEntry, varsServer>>

\* onChange of the name input and of the textarea of CommentDraft.
SetName(v) ==
    /\ activeDemo = "activity"
    /\ ActivityMode("comment", activeTab) = "visible"
    /\ name' = v
    /\ UNCHANGED <<activeTab, currentTime, isPlaying, interval, text>>
    /\ UNCHANGED <<varsApp, varsSuspense, varsGallery, varsEntry, varsServer>>

SetText(v) ==
    /\ activeDemo = "activity"
    /\ ActivityMode("comment", activeTab) = "visible"
    /\ text' = v
    /\ UNCHANGED <<activeTab, currentTime, isPlaying, interval, name>>
    /\ UNCHANGED <<varsApp, varsSuspense, varsGallery, varsEntry, varsServer>>

----------------------------------------------------------------------------
(* ViewTransitionsDemo: the list/detail gallery *)

MaxOps == 4          \* select and back operations in one run

NoItem == [id |-> 0, title |-> "", description |-> "", image |-> ""]   \* null

\* const items: Item[]
ItemsData ==
    << [id |-> 1, title |-> "Mountain Vista", image |-> "U+1F3D4",
        description |-> "A breathtaking view of snow-capped mountains at sunrise. The golden light paints the peaks in warm hues while the valleys below remain in cool shadow."],
       [id |-> 2, title |-> "Ocean Waves", image |-> "U+1F30A",
        description |-> "Powerful waves crash against weathered rocks on a dramatic coastline. The sea spray catches the afternoon light, creating rainbows in the mist."],
       [id |-> 3, title |-> "Forest Path", image |-> "U+1F332",
        description |-> "A winding trail through an ancient forest, dappled sunlight filtering through the canopy. Moss covers the ground in a soft green carpet."],
       [id |-> 4, title |-> "Desert Sunset", image |-> "U+1F3DC",
        description |-> "The vast desert landscape transforms under a spectacular sunset. Cacti stand as silhouettes against the vibrant orange and purple sky."] >>

\* viewTransitionName: `image-${item.id}` and `title-${item.id}`, the prefix
\* followed by the decimal digits of the id, written as the pair of the two.
ImageTag(id) == <<"image-", id>>
TitleTag(id) == <<"title-", id>>
NoTag == << >>

\* ListView with the regions tagged by the position of the card in the list.
ListViewTaggedByIndex(its) ==
    [view |-> "list",
     cards |-> [i \in DOMAIN its |->
                  [id |-> its[i].id, image |-> its[i].image, title |-> its[i].title,
                   imageTag |-> ImageTag(i - 1), titleTag |-> TitleTag(i - 1)]],
     detail |-> NoItem, imageTag |-> NoTag, titleTag |-> NoTag]

\* ListView: one card per item, showing its image and its title, each in a
\* region tagged for the view transition.
ListView(its) ==
    [view |-> "list",
     cards |-> [i \in DOMAIN its |->
                  [id |-> its[i].id, image |-> its[i].image, title |-> its[i].title,
                   imageTag |-> ImageTag(its[i].id), titleTag |-> TitleTag(its[i].id)]],
     detail |-> NoItem, imageTag |-> NoTag, titleTag |-> NoTag]

\* DetailView: the selected item's image, title and description, image and
\* title in tagged regions.
DetailView(item) ==
    [view |-> "detail", cards |-> << >>, detail |-> item,
     imageTag |-> ImageTag(item.id), titleTag |-> TitleTag(item.id)]

\* The tags of the regions of a rendered view, in document order.
TaggedRegions(d) ==
    IF d.view = "list"
    THEN [n \in 1..(2 * Len(d.cards)) |->
            IF n % 2 = 1 THEN d.cards[(n + 1) \div 2].imageTag
            ELSE d.cards[n \div 2].titleTag]
    ELSE <<d.imageTag, d.titleTag>>

\* A test for undefined, which null passes: the detail view of no item.
GalleryViewNotUndefined(sel, its) == DetailView(sel)

\* {selectedItem ? <DetailView item={selectedItem}/> : <ListView/>}
GalleryView(sel, its) == IF sel # NoItem THEN DetailView(sel) ELSE ListView(its)

\* The callback without flushSync: the update is only scheduled.
TransitionCallbackNoFlush(target, sel, d, pend, its) ==
    [selectedItem |-> sel, dom |-> d, pendingUpdates |-> Append(pend, target)]

\* The body of the callback given to document.startViewTransition:
\* flushSync(() => setSelectedItem(target)). The update is applied and the DOM
\* rendered before flushSync returns. Yields the state the callback leaves.
TransitionCallback(target, sel, d, pend, its) ==
    [selectedItem |-> target, dom |-> GalleryView(target, its), pendingUpdates |-> pend]

\* document.startViewTransition(callback): the browser keeps the callback and
\* calls it when it has captured the old state; every callback is called, in the
\* order of the calls, also that of a transition a later call skips.
startViewTransition(callbacks, target) == Append(callbacks, target)

\* A handler with no else branch: nothing happens without the capability.
setSelectedItemMissing(pend, target) == pend

\* The else branch: setSelectedItem(target) called in the event handler.
setSelectedItem(pend, target) == Append(pend, target)

\* What handleSelect(item) and handleBack() set selectedItem to.
SelectTarget(its, i) == its[i]
BackTarget == NoItem

GalleryInit ==
    /\ items = ItemsData
    /\ selectedItem = NoItem
    /\ dom = ListView(ItemsData)
    /\ pendingUpdates = << >>
    /\ vtCallbacks = << >>
    /\ afterSnapshot = [taken |-> FALSE, dom |-> ListView(ItemsData), target |-> NoItem,
                        pending |-> 0]
    /\ ops = << >>
    /\ trace = << >>

\* handleSelect / handleBack with target the new value of selectedItem: with the
\* capability the mutation is handed to document.startViewTransition, which
\* calls it later; without it setSelectedItem(target) is called directly and
\* React applies it when the event handler has returned.
HandleTransition(target) ==
    /\ Len(ops) < MaxOps
    /\ pendingUpdates = << >>
    /\ ops' = Append(ops, target.id)
    /\ IF hasStartViewTransition
       THEN /\ vtCallbacks' = startViewTransition(vtCallbacks, target)
            /\ UNCHANGED pendingUpdates
       ELSE /\ pendingUpdates' = setSelectedItem(pendingUpdates, target)
            /\ UNCHANGED vtCallbacks
    /\ UNCHANGED <<items, selectedItem, dom, hasStartViewTransition, afterSnapshot, trace>>
    /\ UNCHANGED <<varsApp, varsSuspense, varsActivity, varsEntry, varsServer>>

\* onClick of a card of the list view.
HandleSelect(i) ==
    /\ activeDemo = "viewtransitions"
    /\ dom.view = "list"
    /\ HandleTransition(SelectTarget(items, i))

\* onClick of the back button of the detail view.
HandleBack ==
    /\ activeDemo = "viewtransitions"
    /\ dom.view = "detail"
    /\ HandleTransition(BackTarget)

\* React applies the updates scheduled in an event handler and renders.
FlushUpdates ==
    /\ activeDemo = "viewtransitions"
    /\ pendingUpdates # << >>
    /\ selectedItem' = Head(pendingUpdates)
    /\ dom' = GalleryView(Head(pendingUpdates), items)
    /\ pendingUpdates' = Tail(pendingUpdates)
    /\ trace' = Append(trace, Head(pendingUpdates).id)
    /\ UNCHANGED <<items, vtCallbacks, hasStartViewTransition, afterSnapshot, ops>>
    /\ UNCHANGED <<varsApp, varsSuspense, varsActivity, varsEntry, varsServer>>

\* The browser, having captured the old state, calls the oldest update callback
\* and captures the new state when the callback has returned.
UpdateCallback ==
    /\ activeDemo = "viewtransitions"
    /\ vtCallbacks # << >>
    /\ pendingUpdates = << >>
    /\ LET target == Head(vtCallbacks)
           r == TransitionCallback(target, selectedItem, dom, pendingUpdates, items)
       IN  /\ selectedItem' = r.selectedItem
           /\ dom' = r.dom
           /\ pendingUpdates' = r.pendingUpdates
           /\ trace' = IF r.pendingUpdates = pendingUpdates
                       THEN Append(trace, r.selectedItem.id) ELSE trace
           /\ afterSnapshot' = [taken |-> TRUE, dom |-> r.dom, target |-> target,
                                pending |-> Len(r.pendingUpdates)]
    /\ vtCallbacks' = Tail(vtCallbacks)
    /\ UNCHANGED <<items, hasStartViewTransition, ops>>
    /\ UNCHANGED <<varsApp, varsSuspense, varsActivity, varsEntry, varsServer>>

----------------------------------------------------------------------------
(* main.tsx: the client entry *)

MaxNodes == 4        \* child nodes of the root container when the script runs

NodeTypes == {"element", "comment", "text"}
ServerNodes == {[type |-> t, by |-> "server"] : t \in NodeTypes}
AppRootNode == [type |-> "element", by |-> "client"]

RECURSIVE ElementsOf(_)
\* Element.children: the child nodes that are elements.
ElementsOf(nodes) ==
    IF nodes = << >> THEN << >>
    ELSE IF Head(nodes).type = "element"
         THEN <<Head(nodes)>> \o ElementsOf(Tail(nodes))
         ELSE ElementsOf(Tail(nodes))

\* childNodes in place of children: comments and text count as content.
hasServerContentChildNodes(nodes) == Len(nodes) > 0

\* const hasServerContent = rootElement.children.length > 0
hasServerContent(nodes) == Len(ElementsOf(nodes)) > 0

EntryInit ==
    /\ pc = "load"
    /\ hydrateRootCalls = 0
    /\ createRootCalls = 0

\* The module body of main.tsx, run once when the script is loaded, and the
\* first render of <App/> that hydrateRoot or createRoot(...).render causes:
\* App shows its default demo, SuspenseDemo, with userId 1.
ClientEntry ==
    /\ pc = "load"
    /\ IF hasServerContent(rootNodes)
       THEN /\ hydrateRootCalls' = hydrateRootCalls + 1
            /\ pc' = "hydrated"
            /\ UNCHANGED <<createRootCalls, rootNodes>>
       ELSE /\ createRootCalls' = createRootCalls + 1
            /\ pc' = "rendered"
            /\ rootNodes' = <<AppRootNode>>
            /\ UNCHANGED hydrateRootCalls
    /\ userId' = 1
    /\ CommitSuspenseDemo(1, userCache, postsCache, suspenseView, lookups, fetches)
    /\ UNCHANGED <<showDemo, serverDataCache, serverView, evicted, abandoned>>
    /\ UNCHANGED <<varsApp, varsActivity, varsGallery, varsServer>>

----------------------------------------------------------------------------
(* App.tsx: the app shell *)

\* {activeDemo === d && <Demo />}: the demo subtrees that a render of App mounts.
MountedDemos(active) == {d \in Demos : active = d}

\* className of the navigation buttons: the buttons rendered with "active".
ActiveNavButtons(active) == {d \in Demos : active = d}

\* setActiveDemo(d) with the demo subtrees left as they were.
SetActiveDemoKeepsSubtrees(d) ==
    /\ activeDemo' = d
    /\ UNCHANGED varsSuspense
    /\ UNCHANGED <<varsActivity, varsGallery, varsEntry, varsServer>>

\* setActiveDemo(d) with the caches owned by SuspenseDemo: a SuspenseDemo that
\* is mounted starts with empty caches.
SetActiveDemoCachesInComponent(d) ==
    /\ activeDemo' = d
    /\ IF d = activeDemo
       THEN UNCHANGED varsSuspense
       ELSE /\ userId' = IF d = "suspense" THEN 1 ELSE NotMounted
            /\ showDemo' = FALSE
            /\ serverView' = UnmountedLeaf
            /\ UNCHANGED <<serverDataCache, evicted, abandoned>>
            /\ IF d = "suspense"
               THEN /\ Len(promises) + 2 <= MaxPromises
                    /\ CommitSuspenseDemo(1, EmptyCache, EmptyCache, UnmountedSuspenseView,
                                          lookups, fetches)
               ELSE /\ suspenseView' = UnmountedSuspenseView
                    /\ retryScheduled' = FALSE
                    /\ UNCHANGED <<userCache, postsCache, promises, lookups, fetches>>
    /\ UNCHANGED <<varsActivity, varsGallery, varsEntry, varsServer>>

\* onClick of a navigation button: setActiveDemo(d). The demo that was shown is
\* unmounted and loses its state, the demo d is mounted and rendered.
SetActiveDemo(d) ==
    /\ activeDemo' = d
    /\ IF d = activeDemo
       THEN UNCHANGED varsSuspense
       ELSE /\ userId' = IF d = "suspense" THEN 1 ELSE NotMounted
            /\ showDemo' = FALSE
            /\ serverView' = UnmountedLeaf
            /\ UNCHANGED <<serverDataCache, evicted, abandoned>>
            /\ IF d = "suspense"
               THEN CommitSuspenseDemo(1, userCache, postsCache, UnmountedSuspenseView,
                                       lookups, fetches)
               ELSE /\ suspenseView' = UnmountedSuspenseView
                    /\ retryScheduled' = FALSE
                    /\ UNCHANGED <<userCache, postsCache, promises, lookups, fetches>>
    /\ UNCHANGED <<varsActivity, varsGallery, varsEntry, varsServer>>

----------------------------------------------------------------------------
(* The server process: entry-server.tsx and the SSR middleware *)

MaxRequests == 3     \* page requests the server handles in one run

Urls == {"/", "/activity", "/no-such-page"}
Errors == {"TypeError", "RangeError"}    \* what a failing step throws
NoError == ""

\* What goes wrong while a request is handled: nothing, the loading of the
\* template or of the render function, or the rendering itself, before or
\* after the body of SuspenseDemo has run.
NoFault == [at |-> "none", error |-> NoError]
Faults ==
    {NoFault} \cup
    {[at |-> a, error |-> e] : a \in {"load", "renderEarly", "renderLate"}, e \in Errors}

\* What UserCard or its fallback puts on the page.
UserCardMarkup(leaf, proms) ==
    IF leaf.show = "content"
    THEN <<"user-card", proms[leaf.promise].value.name, proms[leaf.promise].value.email>>
    ELSE IF leaf.show = "fallback" THEN <<"loading-spinner", "user">> ELSE << >>

\* What PostsList or its fallback puts on the page.
PostsListMarkup(leaf, proms) ==
    IF leaf.show = "content"
    THEN <<"posts-list">> \o [i \in 1..3 |-> proms[leaf.promise].value[i].title]
    ELSE IF leaf.show = "fallback" THEN <<"loading-spinner", "posts">> ELSE << >>

\* The visible output of <App/> with SuspenseDemo selected.
AppMarkup(demo, id, view, proms) ==
    [active |-> demo, loadUser |-> id + 1,
     user |-> UserCardMarkup(view.user, proms),
     posts |-> PostsListMarkup(view.posts, proms)]

NoMarkup == [active |-> "", loadUser |-> 0, user |-> << >>, posts |-> << >>]

\* render with an exception handler around renderToString.
renderSwallowsException(url, fault, uc, pcache, proms) ==
    LET r == RenderSuspenseDemo(1, uc, pcache, proms, UnmountedSuspenseView)
        failed == fault.at \in {"renderEarly", "renderLate"}
        ran == fault.at # "renderEarly"
    IN  [threw |-> NoError,
         html |-> IF failed THEN NoMarkup
                  ELSE AppMarkup("suspense", 1, r.view, r.promises),
         userCache |-> IF ran THEN r.userCache ELSE uc,
         postsCache |-> IF ran THEN r.postsCache ELSE pcache,
         promises |-> IF ran THEN r.promises ELSE proms]

\* render(_url, _ssrManifest): renderToString(<StrictMode><App/></StrictMode>).
\* App starts with activeDemo "suspense" and SuspenseDemo with userId 1, and
\* the body of SuspenseDemo calls getUserPromise and getPostsPromise on the
\* caches of the module instance in the server process. A boundary whose
\* child suspends is written as its fallback. The url is not used, and an
\* exception of renderToString leaves render as it was thrown.
render(url, fault, uc, pcache, proms) ==
    LET r == RenderSuspenseDemo(1, uc, pcache, proms, UnmountedSuspenseView)
        failed == fault.at \in {"renderEarly", "renderLate"}
        ran == fault.at # "renderEarly"
    IN  [threw |-> IF failed THEN fault.error ELSE NoError,
         html |-> IF failed THEN NoMarkup
                  ELSE AppMarkup("suspense", 1, r.view, r.promises),
         userCache |-> IF ran THEN r.userCache ELSE uc,
         postsCache |-> IF ran THEN r.postsCache ELSE pcache,
         promises |-> IF ran THEN r.promises ELSE proms]

\* template.replace(`<!--app-head-->`, rendered.head ?? "")
\*         .replace(`<!--app-html-->`, rendered.html ?? ""): render returns no head.
InjectIntoTemplate(rendered) == [head |-> "", app |-> rendered.html]
NoPage == [head |-> "", app |-> NoMarkup]

NoResponse == [status |-> 0, error |-> NoError, page |-> NoPage]

ServerInit ==
    /\ serverUserCache = EmptyCache
    /\ serverPostsCache = EmptyCache
    /\ serverPromises = << >>
    /\ request = [url |-> "", fault |-> NoFault]
    /\ response = NoResponse
    /\ served = 0

\* The SSR middleware handling one page request: the try block up to
\* res.status(200)...send(html), or the catch block with res.status(500).end(e.stack).
HandleRequest(url, fault) ==
    /\ served < MaxRequests
    /\ served' = served + 1
    /\ request' = [url |-> url, fault |-> fault]
    /\ IF fault.at = "load"
       THEN /\ response' = [status |-> 500, error |-> fault.error, page |-> NoPage]
            /\ UNCHANGED <<serverUserCache, serverPostsCache, serverPromises>>
       ELSE LET rendered == render(url, fault, serverUserCache, serverPostsCache,
                                   serverPromises)
            IN  /\ serverUserCache' = rendered.userCache
                /\ serverPostsCache' = rendered.postsCache
                /\ serverPromises' = rendered.promises
                /\ response' =
                     IF rendered.threw # NoError
                     THEN [status |-> 500, error |-> rendered.threw, page |-> NoPage]
                     ELSE [status |-> 200, error |-> NoError,
                           page |-> InjectIntoTemplate(rendered)]
    /\ UNCHANGED <<varsApp, varsSuspense, varsActivity, varsGallery, varsEntry>>

\* Quantum milliseconds pass in the server process.
ServerTick ==
    /\ Timers(serverPromises) # {}
    /\ serverPromises' = [i \in DOMAIN serverPromises |->
                              IF i \in Timers(serverPromises)
                              THEN Elapsed(serverPromises[i])
                              ELSE serverPromises[i]]
    /\ UNCHANGED <<serverUserCache, serverPostsCache, request, response, served>>
    /\ UNCHANGED <<varsApp, varsSuspense, varsActivity, varsGallery, varsEntry>>

----------------------------------------------------------------------------
(* Specifications *)

\* The modules are loaded and nothing is rendered yet: the caches are empty.
SuspenseUnrendered ==
    /\ userId = NotMounted
    /\ showDemo = FALSE
    /\ userCache = EmptyCache
    /\ postsCache = EmptyCache
    /\ serverDataCache = NoPromise
    /\ promises = << >>
    /\ suspenseView = UnmountedSuspenseView
    /\ serverView = UnmountedLeaf
    /\ retryScheduled = FALSE
    /\ lookups = [e \in CacheEntries |-> {}]
    /\ fetches = [e \in CacheEntries |-> 0]
    /\ evicted = [e \in CacheEntries |-> {}]
    /\ abandoned = {}

\* The state after the first client render of <App/>: SuspenseDemo was rendered
\* with userId 1 and has started both fetches. With mounted it is still on
\* screen; without, another demo was chosen since and SuspenseDemo is unmounted.
SuspenseInit(mounted) ==
    LET r == RenderSuspenseDemo(1, EmptyCache, EmptyCache, << >>, UnmountedSuspenseView)
    IN  /\ userId = IF mounted THEN 1 ELSE NotMounted
        /\ showDemo = FALSE
        /\ userCache = r.userCache
        /\ postsCache = r.postsCache
        /\ serverDataCache = NoPromise
        /\ promises = r.promises
        /\ suspenseView = IF mounted THEN r.view ELSE UnmountedSuspenseView
        /\ serverView = UnmountedLeaf
        /\ retryScheduled = FALSE
        /\ lookups = [e \in CacheEntries |->
                        IF e = <<"user", 1>> THEN {r.userP}
                        ELSE IF e = <<"posts", 1>> THEN {r.postsP} ELSE {}]
        /\ fetches = [e \in CacheEntries |->
                        IF e \in {<<"user", 1>>, <<"posts", 1>>} THEN 1 ELSE 0]
        /\ evicted = [e \in CacheEntries |-> {}]
        /\ abandoned = {}

\* The client entry has rendered into an empty container.
EntryDone ==
    /\ pc = "rendered"
    /\ hydrateRootCalls = 0
    /\ createRootCalls = 1
    /\ rootNodes = <<AppRootNode>>

\* The page with demo d on screen and nothing done in it yet.
Loaded(d) ==
    /\ activeDemo = d
    /\ SuspenseInit(d = "suspense")
    /\ ActivityInit
    /\ GalleryInit
    /\ EntryDone
    /\ ServerInit

Init ==
    /\ hasStartViewTransition = TRUE
    /\ Loaded("suspense")

Next ==
    \/ \E d \in Demos : SetActiveDemo(d)
    \/ HandleChangeUser
    \/ ReRenderSuspenseDemo
    \/ Tick
    \/ ToggleShowDemo
    \/ ReRenderServerProductList

Spec == Init /\ [][Next]_vars

\* ActivityDemo, after the 'Activity' navigation button was pressed.
InitActivity ==
    /\ hasStartViewTransition = TRUE
    /\ Loaded("activity")

NextActivity ==
    \/ \E tab \in Tabs : SetActiveTab(tab)
    \/ TogglePlay
    \/ \E v \in SliderValues : Seek(v)
    \/ IntervalTick
    \/ \E v \in Typed : SetName(v)
    \/ \E v \in Typed : SetText(v)

SpecActivity == InitActivity /\ [][NextActivity]_vars

\* ViewTransitionsDemo, after the 'View Transitions' navigation button was
\* pressed, in a browser with or without document.startViewTransition.
InitGallery ==
    /\ hasStartViewTransition \in BOOLEAN
    /\ Loaded("viewtransitions")

NextGallery ==
    \/ \E i \in DOMAIN items : HandleSelect(i)
    \/ HandleBack
    \/ FlushUpdates
    \/ UpdateCallback

SpecGallery == InitGallery /\ [][NextGallery]_vars

RECURSIVE SeqsUpTo(_, _)
SeqsUpTo(S, n) ==
    IF n = 0 THEN {<< >>}
    ELSE LET shorter == SeqsUpTo(S, n - 1)
         IN  shorter \cup {Append(q, x) : q \in shorter, x \in S}

\* main.tsx, loaded against a root container with any child nodes.
InitEntry ==
    /\ activeDemo = "suspense"
    /\ hasStartViewTransition = TRUE
    /\ rootNodes \in SeqsUpTo(ServerNodes, MaxNodes)
    /\ SuspenseUnrendered
    /\ ActivityInit
    /\ GalleryInit
    /\ EntryInit
    /\ ServerInit

NextEntry == ClientEntry

SpecEntry == InitEntry /\ [][NextEntry]_vars

\* The Node process after the server was started: the modules are loaded, no
\* request was handled, and there is no document.
InitServer ==
    /\ activeDemo = "suspense"
    /\ hasStartViewTransition = FALSE
    /\ rootNodes = << >>
    /\ SuspenseUnrendered
    /\ ActivityInit
    /\ GalleryInit
    /\ EntryInit
    /\ ServerInit

NextServer ==
    \/ \E url \in Urls, fault \in Faults : HandleRequest(url, fault)
    \/ ServerTick

SpecServer == InitServer /\ [][NextServer]_vars

\* Spec with the scheduling the program runs under: the timer queue fires
\* every timer that was set, and React renders again a boundary whose promise
\* has settled. Clicks are not forced to happen.
SpecFair ==
    /\ Spec
    /\ WF_vars(Tick)
    /\ WF_vars(ReRenderSuspenseDemo)
    /\ WF_vars(ReRenderServerProductList)

----------------------------------------------------------------------------
(* Properties of the promise caches and the Suspense boundaries (Spec) *)

\* The promise a cache entry holds, NoPromise when it holds none.
Cached(e) ==
    IF e[1] = "user" THEN userCache[e[2]]
    ELSE IF e[1] = "posts" THEN postsCache[e[2]]
    ELSE serverDataCache

IsPending(p) == promises[p].status = "pending"
IsFulfilled(p) == promises[p].status = "fulfilled"

\* C1: for every cache key, all lookups made since the key was last evicted
\* (renders, second renders and retries included) returned one and the same
\* promise object, which is the one the cache holds, and exactly one fetch
\* simulation was started for them, whether that promise is pending or settled.
C1_OnePromisePerLiveKey ==
    \A e \in CacheEntries :
        /\ Cardinality(lookups[e]) <= 1
        /\ fetches[e] <= 1
        /\ lookups[e] # {} => /\ fetches[e] = 1
                               /\ lookups[e] = {Cached(e)}

\* A key that was looked up again by a render made after its promise settled.
C1_Witness ==
    /\ userId = 2
    /\ suspenseView.user.show = "content"
    /\ lookups[<<"user", 2>>] = {userCache[2]}
    /\ IsFulfilled(userCache[2])
    /\ IsPending(postsCache[2])

\* C2: the lookup that follows an eviction (handleChangeUser's render for the
\* new userId, the render after 'Load Server Components') returns a promise that
\* no lookup of that key returned before the eviction, and that promise is a
\* newly started fetch simulation with its full delay still to run.
C2_EvictionStartsFreshFetch ==
    /\ [](\A e \in CacheEntries : lookups[e] \cap evicted[e] = {})
    /\ [][(userId # NotMounted /\ userId' = userId + 1) =>
            /\ userCache'[userId'] \notin evicted'[<<"user", userId'>>]
            /\ postsCache'[userId'] \notin evicted'[<<"posts", userId'>>]
            /\ userCache'[userId'] \notin DOMAIN promises
            /\ postsCache'[userId'] \notin DOMAIN promises
            /\ lookups[<<"user", userId'>>] \subseteq evicted'[<<"user", userId'>>]
            /\ promises'[userCache'[userId']] = fetchUser(userId')
            /\ promises'[postsCache'[userId']] = fetchPosts(userId')]_vars
    /\ [][(~showDemo /\ showDemo') =>
            /\ serverDataCache' \notin evicted'[<<"server", ServerKey>>]
            /\ serverDataCache' \notin DOMAIN promises
            /\ promises'[serverDataCache'] = fetchServerData]_vars

\* Key 2 was cached, evicted by a later handleChangeUser and looked up again.
C2_Witness ==
    /\ evicted[<<"user", 2>>] # {}
    /\ lookups[<<"user", 2>>] # {}
    /\ evicted[<<"posts", 2>>] # {}

\* The leaves that are mounted, each with the promise it is given.
MountedLeaves ==
    {l \in {suspenseView.user, suspenseView.posts, serverView} : l.show # "none"}

\* Whether a fallback of a boundary that encloses leaf l is on screen.
FallbackShownFor(l) ==
    \/ l.show = "fallback"
    \/ l = suspenseView.posts /\ suspenseView.user.show = "fallback"

\* C5: a suspending leaf shows its resolved content only when its promise has
\* settled; while the promise is pending a fallback of an enclosing boundary is
\* on screen and the content has not been shown; the content of a promise is put
\* on screen at most once, and exactly once when React has rendered after the
\* settlement.
C5_ContentOnlyAfterSettlement ==
    \A l \in MountedLeaves :
        /\ l.show = "content" => IsFulfilled(l.promise) /\ l.reveals = 1
        /\ IsPending(l.promise) => FallbackShownFor(l) /\ l.reveals = 0
        /\ l.reveals <= 1
        /\ (IsFulfilled(l.promise) /\ ~retryScheduled /\ l.show # "hidden")
              => l.show = "content" /\ l.reveals = 1

\* The user card is on screen after its fallback was, its promise settled.
C5_Witness ==
    /\ userId = 2
    /\ suspenseView.user.show = "content"
    /\ suspenseView.user.reveals = 1
    /\ suspenseView.posts.show = "content"
    /\ serverDataCache # NoPromise

\* C6: in SuspenseDemo the posts list is on screen only together with the user
\* card of a settled user promise; while the user card is on screen a pending
\* posts promise shows the inner fallback only; once React has rendered after
\* the user promise settled, the user card is on screen whatever the state of
\* the posts promise; and the user card, once on screen, stays there while
\* userId is unchanged.
C6_NestedBoundariesIndependent ==
    /\ [](activeDemo = "suspense" =>
            LET u == suspenseView.user
                q == suspenseView.posts
            IN  /\ q.show = "content" => u.show = "content" /\ IsFulfilled(userCache[userId])
                /\ (u.show = "content" /\ IsPending(postsCache[userId])) => q.show = "fallback"
                /\ (IsFulfilled(userCache[userId]) /\ ~retryScheduled) => u.show = "content"
                /\ u.promise = userCache[userId] /\ q.promise = postsCache[userId])
    /\ [][(suspenseView.user.show = "content" /\ userId' = userId)
            => suspenseView'.user.show = "content"]_vars

\* The user card is on screen and the inner boundary shows the posts fallback.
C6_Witness ==
    /\ activeDemo = "suspense"
    /\ suspenseView.user.show = "content"
    /\ suspenseView.posts.show = "fallback"
    /\ IsPending(postsCache[userId])

----------------------------------------------------------------------------
(* Properties of ActivityDemo (SpecActivity) *)

\* C3: a tab switch changes activeTab and nothing of the subtrees' state: the
\* draft's name and text and the player's isPlaying and currentTime are the
\* same after it as before, whichever tab is left and whichever is entered.
C3_TabSwitchKeepsSubtreeState ==
    [][activeTab' # activeTab => UNCHANGED <<currentTime, isPlaying, text, name>>]_vars

\* Another tab is shown while the draft and the player hold what was entered.
C3_Witness ==
    /\ activeTab = "other"
    /\ text = "ab"
    /\ name = "a"
    /\ isPlaying
    /\ currentTime = 51

\* C4 as stated: whenever the player is playing and its tab is hidden, its
\* interval is running.
C4_TimerRunsWhileHidden == (isPlaying /\ activeTab # "video") => interval

\* C4, amended: the interval exists exactly while the player is playing and its
\* tab is visible; while the tab is hidden isPlaying and currentTime keep their
\* values and no tick advances currentTime; when the tab is shown again the
\* interval is started again if isPlaying is still true, and currentTime is the
\* value it had when the tab was left.
C4_TimerStopsWhileHidden ==
    /\ [](interval <=> (isPlaying /\ activeTab = "video"))
    /\ [][activeTab # "video" =>
            /\ currentTime' = currentTime
            /\ isPlaying' = isPlaying
            /\ activeTab' = "video" => interval' = isPlaying]_vars

\* The player's tab is hidden while it is playing part way through.
C4_Witness ==
    /\ activeTab = "comment"
    /\ isPlaying
    /\ currentTime = 2
    /\ ~interval

----------------------------------------------------------------------------
(* Properties of ViewTransitionsDemo (SpecGallery) *)

Last(q) == q[Len(q)]

\* C7: the item data never changes; the list view always shows the four items
\* in their order, the detail view always shows one of them, unchanged; and a
\* back operation that is applied leaves selectedItem null and the list view
\* on screen.
C7_SelectBackRestoresList ==
    /\ [](items = ItemsData)
    /\ [](dom.view = "list" => dom = ListView(ItemsData))
    /\ [](dom.view = "detail" =>
            \E i \in DOMAIN ItemsData : dom = DetailView(ItemsData[i]))
    /\ [](pendingUpdates = << >> => (dom.view = "list" <=> selectedItem = NoItem))
    /\ [][(trace' # trace /\ Last(trace') = NoItem.id) =>
            selectedItem' = NoItem /\ dom' = ListView(ItemsData)]_vars

\* An item was selected and back was pressed: the list is on screen again.
C7_Witness ==
    /\ Len(trace) = 2
    /\ trace[1] = 3
    /\ trace[2] = NoItem.id
    /\ dom.view = "list"

\* C8: with the capability, neither handler changes selectedItem or the view
\* itself, it hands the mutation to startViewTransition; when the browser calls
\* the callback, the new selectedItem and its view are applied and no update is
\* pending when it returns, so the state captured after the callback is the view
\* of the callback's target.
C8_MutationFlushedInsideCallback ==
    /\ [](afterSnapshot.taken =>
            /\ afterSnapshot.pending = 0
            /\ afterSnapshot.dom = (IF afterSnapshot.target = NoItem
                                    THEN ListView(ItemsData)
                                    ELSE DetailView(afterSnapshot.target)))
    /\ [][(hasStartViewTransition /\ ops' # ops) =>
            /\ UNCHANGED <<selectedItem, dom, pendingUpdates>>
            /\ Len(vtCallbacks') = Len(vtCallbacks) + 1
            /\ Last(vtCallbacks').id = Last(ops')]_vars
    /\ [][Len(vtCallbacks') < Len(vtCallbacks) =>
            /\ selectedItem' = Head(vtCallbacks)
            /\ dom'.detail = Head(vtCallbacks)
            /\ pendingUpdates' = << >>]_vars

\* The browser has captured the detail view of item 2 after a callback.
C8_Witness ==
    /\ hasStartViewTransition
    /\ afterSnapshot.taken
    /\ afterSnapshot.dom = DetailView(ItemsData[2])
    /\ selectedItem = ItemsData[2]

\* C9: with and without the capability, the values selectedItem has taken are
\* the targets of the operations made so far, in their order, up to those whose
\* update has not been applied yet; when none is outstanding the sequence of
\* values is the sequence of operations, the same in both browsers.
C9_SameValuesWithoutCapability ==
    LET applied == Len(ops) - Len(vtCallbacks) - Len(pendingUpdates)
    IN  /\ applied >= 0
        /\ trace = SubSeq(ops, 1, applied)
        /\ hasStartViewTransition => pendingUpdates = << >>
        /\ ~hasStartViewTransition => vtCallbacks = << >>
        /\ selectedItem.id = (IF trace = << >> THEN NoItem.id ELSE Last(trace))

\* Without the capability three operations were made and applied.
C9_Witness ==
    /\ ~hasStartViewTransition
    /\ trace = <<1, NoItem.id, 4>>
    /\ pendingUpdates = << >>

----------------------------------------------------------------------------
(* Properties of the client entry (SpecEntry) *)

\* Whether the container holds an element, which is what rendered markup is.
HoldsRenderedContent(nodes) == \E i \in DOMAIN nodes : nodes[i].type = "element"

\* C10: the entry calls nothing before it runs and exactly one of hydrateRoot
\* and createRoot, once, when it has run; it calls hydrateRoot, and leaves the
\* container's nodes as they are, exactly when the container holds an element,
\* and createRoot(...).render otherwise; nothing is called after that.
C10_EntryTakesOnePath ==
    /\ [](pc = "load" => hydrateRootCalls = 0 /\ createRootCalls = 0)
    /\ [](pc # "load" => hydrateRootCalls + createRootCalls = 1)
    /\ [][pc = "load" /\ pc' # "load" =>
            IF HoldsRenderedContent(rootNodes)
            THEN /\ hydrateRootCalls' = 1
                 /\ createRootCalls' = 0
                 /\ rootNodes' = rootNodes
            ELSE /\ createRootCalls' = 1
                 /\ hydrateRootCalls' = 0]_vars
    /\ [][pc # "load" => UNCHANGED <<hydrateRootCalls, createRootCalls, rootNodes>>]_vars

\* The entry hydrated a container that holds a comment and server markup.
C10_Witness ==
    /\ pc = "hydrated"
    /\ hydrateRootCalls = 1
    /\ Len(rootNodes) = 2
    /\ rootNodes[1].type = "comment"
    /\ rootNodes[2] = [type |-> "element", by |-> "server"]

----------------------------------------------------------------------------
(* Properties of the server process (SpecServer) *)

\* C11: a call of the server entry's render schedules no timer and leaves the
\* module-level promise caches of the server process as they were: handling a
\* request changes neither the set of running timers nor the caches nor the
\* promises they hold.
C11_RenderHasNoSideEffect ==
    [][served' # served =>
          /\ Timers(serverPromises') = Timers(serverPromises)
          /\ serverUserCache' = serverUserCache
          /\ serverPostsCache' = serverPostsCache
          /\ serverPromises' = serverPromises]_vars

\* C12: an exception thrown while rendering reaches the middleware as it was
\* thrown and is answered with status 500 and no page, neither partial markup
\* nor the template; status 200 is sent only when render returned normally,
\* and then with the template holding the rendered markup.
C12_RenderExceptionAnswered500 ==
    [][served' # served =>
          LET fault == request'.fault
          IN  /\ fault.at \in {"renderEarly", "renderLate"} =>
                    /\ response'.status = 500
                    /\ response'.error = fault.error
                    /\ response'.page = NoPage
              /\ response'.status = 200 =>
                    /\ fault = NoFault
                    /\ response'.page.app # NoMarkup
              /\ response'.status \in {200, 500}]_vars

\* Rendering threw after the body of SuspenseDemo had run, and the request was
\* answered with 500.
C12_Witness ==
    /\ served > 0
    /\ request.fault.at = "renderLate"
    /\ response.status = 500
    /\ serverPromises # << >>

\* What a full client render of the default state puts into an empty root
\* container of a freshly loaded page.
ClientFirstRender ==
    LET r == RenderSuspenseDemo(1, EmptyCache, EmptyCache, << >>, UnmountedSuspenseView)
    IN  AppMarkup("suspense", 1, r.view, r.promises)

\* C13: the server entry's output for the default state is the visible output
\* of a full client render into an empty container, on every call, whatever
\* calls were made before and whatever the url.
C13_ServerOutputIsClientOutput ==
    response.status = 200 => response.page.app = ClientFirstRender

----------------------------------------------------------------------------
(* Further properties of the promise caches and the boundaries (Spec, SpecFair) *)

\* C14: evicting a cache entry never cancels the fetch in flight: the promise
\* of an entry evicted while pending stays pending at the eviction, its timer
\* runs on like every other timer and it settles; it is then in no cache and
\* no mounted boundary waits on it, and the step that settles it changes
\* neither a cache nor what a boundary displays, and schedules a render only
\* if a promise that is awaited settled in the same step.
C14_EvictionNeverCancels ==
    /\ [](abandoned \cap (CachedPromises \cup Awaited) = {})
    /\ [][/\ \A p \in abandoned' \ abandoned :
                promises'[p] = promises[p] /\ promises[p].status = "pending"
          /\ (\E i \in DOMAIN promises : promises'[i] # promises[i]) =>
                \A p \in abandoned : promises'[p] = Elapsed(promises[p])
          /\ (\E p \in abandoned : promises'[p].status # promises[p].status) =>
                /\ UNCHANGED <<userCache, postsCache, serverDataCache,
                               suspenseView, serverView>>
                /\ (retryScheduled' # retryScheduled =>
                      \E q \in Awaited : promises'[q].status # promises[q].status)
         ]_vars

\* ServerComponentsDemo: Load, Reset within the delay, Load again; the promise
\* of the first Load has settled although it was evicted while pending, and
\* the boundary shows the fallback for the promise of the second Load.
C14_Witness ==
    /\ activeDemo = "servercomponents"
    /\ showDemo
    /\ serverDataCache # NoPromise
    /\ promises[serverDataCache].status = "pending"
    /\ serverView.show = "fallback"
    /\ \E p \in abandoned :
          /\ promises[p].kind = "server"
          /\ promises[p].status = "fulfilled"

\* C15: every fetch that was started is eventually fulfilled and none is ever
\* rejected; a fulfilled promise stays as it is; and the value depends on the
\* key alone: fetchUser(k) gives id k, name 'User k' and email
\* 'userk@example.com', fetchPosts(k) gives the three posts 'Post i by user k'.
C15_FetchFulfilsWithPayloadOfKey ==
    /\ [](\A i \in DOMAIN promises :
            LET pr == promises[i]
            IN  /\ pr.status \in {"pending", "fulfilled"}
                /\ pr.kind = "user" =>
                      pr.value = [id |-> pr.key, name |-> <<"User ", pr.key>>,
                                  email |-> <<"user", pr.key, "@example.com">>]
                /\ pr.kind = "posts" =>
                      /\ DOMAIN pr.value = 1..3
                      /\ \A n \in 1..3 :
                            pr.value[n] = [id |-> n,
                                           title |-> <<"Post ", n, " by user ", pr.key>>])
    /\ [][\A i \in DOMAIN promises :
             promises[i].status = "fulfilled" => promises'[i] = promises[i]]_vars
    /\ \A i \in 1..MaxPromises :
          (i \in DOMAIN promises) ~>
              (i \in DOMAIN promises /\ promises[i].status = "fulfilled")

\* Fetches for users 1 and 2, for the posts of user 2 and for the product list
\* were started and are all fulfilled.
C15_Witness ==
    /\ \E i \in DOMAIN promises :
          /\ promises[i].kind = "user" /\ promises[i].key = 2
          /\ promises[i].status = "fulfilled"
    /\ \E i \in DOMAIN promises :
          /\ promises[i].kind = "posts" /\ promises[i].key = 2
          /\ promises[i].status = "fulfilled"
    /\ \E i \in DOMAIN promises :
          /\ promises[i].kind = "server"
          /\ promises[i].status = "fulfilled"
    /\ \A i \in DOMAIN promises : promises[i].status = "fulfilled"

\* C16: activeDemo is 'suspense' at the first render and always one of the
\* four demo values; it changes only by a navigation click, to the value of
\* the button clicked, which unmounts the demo shown and mounts the chosen
\* one; in every state exactly one demo subtree is mounted, the one matching
\* activeDemo, and exactly the matching navigation button is active.
C16_OneDemoMountedAndActive ==
    /\ activeDemo = "suspense"
    /\ [](/\ activeDemo \in Demos
          /\ MountedDemos(activeDemo) = {activeDemo}
          /\ ActiveNavButtons(activeDemo) = {activeDemo}
          /\ Cardinality(MountedDemos(activeDemo)) = 1
          /\ (userId # NotMounted) <=> ("suspense" \in MountedDemos(activeDemo))
          /\ (suspenseView # UnmountedSuspenseView) <=>
                 ("suspense" \in MountedDemos(activeDemo))
          /\ (showDemo \/ serverView # UnmountedLeaf) =>
                 ("servercomponents" \in MountedDemos(activeDemo)))
    /\ [][activeDemo' # activeDemo =>
             /\ activeDemo' \in Demos
             /\ userId' = IF activeDemo' = "suspense" THEN 1 ELSE NotMounted
             /\ showDemo' = FALSE
             /\ serverView' = UnmountedLeaf]_vars
    /\ [][(userId' # userId /\ userId' # NotMounted /\ userId # NotMounted) =>
             activeDemo' = activeDemo]_vars

\* 'Server Components' was clicked and its demo loaded: SuspenseDemo is
\* unmounted and only the clicked button is active.
C16_Witness ==
    /\ activeDemo = "servercomponents"
    /\ ActiveNavButtons(activeDemo) = {"servercomponents"}
    /\ userId = NotMounted
    /\ showDemo
    /\ promises # << >>

\* The user card and the posts list of user k are both displayed with their
\* resolved content, so no fallback is left.
AllLoadedFor(k) ==
    /\ userId = k
    /\ suspenseView.user.show = "content"
    /\ suspenseView.posts.show = "content"
    /\ promises[suspenseView.user.promise].kind = "user"
    /\ promises[suspenseView.user.promise].key = k
    /\ promises[suspenseView.posts.promise].kind = "posts"
    /\ promises[suspenseView.posts.promise].key = k

\* C17: after any finite sequence of 'Load User' clicks, if no further click
\* follows, the user card and the posts list of the current userId are
\* eventually both displayed and no fallback remains: being at userId k leads
\* to everything of k being displayed, unless a click changes userId first.
C17_LoadingEventuallyCompletes ==
    \A k \in Keys :
        (activeDemo = "suspense" /\ userId = k) ~> (AllLoadedFor(k) \/ userId # k)

\* 'Load User' was clicked up to the last user, and user card and posts list
\* of that user are displayed.
C17_Witness ==
    /\ activeDemo = "suspense"
    /\ AllLoadedFor(MaxUserId)
    /\ ~retryScheduled

----------------------------------------------------------------------------
(* Further properties of ActivityDemo (SpecActivity) *)

\* The panels an Activity boundary renders, visible or hidden.
MountedPanels == {tab \in Tabs : ActivityMode(tab, activeTab) \in {"visible", "hidden"}}
VisiblePanels == {tab \in Tabs : ActivityMode(tab, activeTab) = "visible"}

\* C18: in ActivityDemo all three panels are mounted in every reachable state;
\* the container's own state is the activeTab value alone, 'video' at first,
\* and a change of it changes no state of a panel; exactly one panel is
\* visible, the one equal to activeTab, and the others are hidden.
C18_AllMountedOneVisible ==
    /\ activeTab = "video"
    /\ [](/\ activeTab \in Tabs
          /\ MountedPanels = Tabs
          /\ VisiblePanels = {activeTab}
          /\ Cardinality(VisiblePanels) = 1
          /\ \A tab \in Tabs \ {activeTab} : ActivityMode(tab, activeTab) = "hidden")
    /\ [][activeTab' # activeTab =>
             /\ activeTab' \in Tabs
             /\ UNCHANGED <<currentTime, isPlaying, text, name>>]_vars

\* The video was played and left, and a comment typed: the comment panel is
\* the visible one while the video panel, hidden, still holds its state.
C18_Witness ==
    /\ activeTab = "comment"
    /\ VisiblePanels = {"comment"}
    /\ isPlaying
    /\ currentTime > 0
    /\ text = "ab"

----------------------------------------------------------------------------
(* Further properties of ViewTransitionsDemo (SpecGallery) *)

\* C19: the view-transition tags are derived from the item id: card i of the
\* list view carries image-i and title-i, the detail view of item i carries
\* exactly the two tags of item i's card in the list view, and within one
\* rendered state no tag is carried by two regions.
C19_TagsMatchAndAreUnique ==
    LET regions == TaggedRegions(dom)
    IN  /\ \A m, n \in DOMAIN regions : regions[m] = regions[n] => m = n
        /\ \A i \in DOMAIN dom.cards :
              /\ dom.cards[i].imageTag = <<"image-", dom.cards[i].id>>
              /\ dom.cards[i].titleTag = <<"title-", dom.cards[i].id>>
        /\ dom.view = "list" => Len(regions) = 2 * Len(items)
        /\ dom.view = "detail" =>
              /\ regions = <<<<"image-", dom.detail.id>>, <<"title-", dom.detail.id>>>>
              /\ \E i \in DOMAIN items :
                    /\ items[i].id = dom.detail.id
                    /\ dom.imageTag = ListView(items).cards[i].imageTag
                    /\ dom.titleTag = ListView(items).cards[i].titleTag

\* The third card was selected and its detail view is on screen, carrying the
\* tags of that card.
C19_Witness ==
    /\ dom.view = "detail"
    /\ dom.detail.id = 3
    /\ TaggedRegions(dom) = <<ImageTag(3), TitleTag(3)>>
    /\ Len(trace) > 0

----------------------------------------------------------------------------
(* What SuspenseDemo displays (Spec) *)

\* C20: whenever the user card or the posts list shows resolved content, the
\* content is that of the current userId, under every interleaving of clicks,
\* renders and settlements: the card shows id, name and email of userId and
\* the list the three posts of userId, so data of an earlier user is never on
\* screen once userId has advanced.
C20_ContentBelongsToCurrentUser ==
    activeDemo = "suspense" =>
        /\ suspenseView.user.show = "content" =>
              LET user == promises[suspenseView.user.promise].value
              IN  /\ user.id = userId
                  /\ user.name = <<"User ", userId>>
                  /\ user.email = <<"user", userId, "@example.com">>
        /\ suspenseView.posts.show = "content" =>
              LET posts == promises[suspenseView.posts.promise].value
              IN  \A n \in DOMAIN posts :
                      posts[n].title = <<"Post ", n, " by user ", userId>>

\* Users 1 and 2 were loaded and shown, 'Load User' was clicked again, and the
\* card of user 3 is shown while the posts of user 3 are still pending.
C20_Witness ==
    /\ activeDemo = "suspense"
    /\ userId = 3
    /\ suspenseView.user.show = "content"
    /\ suspenseView.posts.show = "fallback"
    /\ \E i \in DOMAIN promises :
          /\ promises[i].kind = "posts" /\ promises[i].key = 2
          /\ promises[i].status = "fulfilled"

----------------------------------------------------------------------------
(* The playback clock of VideoPlayer (SpecActivity) *)

\* C21: currentTime stays within 0..100; a tick of the interval adds 1 when
\* currentTime < 100 and leaves isPlaying true, and at currentTime >= 100 it
\* sets currentTime to 0 and isPlaying to false; only such a tick changes
\* currentTime and isPlaying in one step; while isPlaying is false there is
\* no interval and no tick can happen, so currentTime changes only by the
\* slider, which leaves isPlaying false.
C21_PlaybackClockStaysInRange ==
    /\ [](currentTime \in 0..100)
    /\ [](~isPlaying => (~interval /\ ~ENABLED IntervalTick))
    /\ [][IntervalTick =>
             /\ isPlaying
             /\ currentTime < 100 => (currentTime' = currentTime + 1 /\ isPlaying')
             /\ currentTime >= 100 => (currentTime' = 0 /\ ~isPlaying')]_vars
    /\ [][(currentTime' # currentTime /\ isPlaying' # isPlaying) =>
             (currentTime = 100 /\ currentTime' = 0 /\ isPlaying /\ ~isPlaying')]_vars
    /\ [][(~isPlaying /\ currentTime' # currentTime) =>
             (~isPlaying' /\ currentTime' \in 0..100)]_vars

\* The player is playing at 53 s, a value the slider of the model is never
\* dragged to: three ticks have advanced it from 50.
C21_Witness ==
    /\ activeTab = "video"
    /\ isPlaying
    /\ interval
    /\ currentTime = 53
    /\ 53 \notin SliderValues

----------------------------------------------------------------------------
(* The lifetime of the promise caches (Spec) *)

\* The keys userCache and postsCache hold.
CachedKeys(cache) == {k \in Keys : cache[k] # NoPromise}

\* C22: the promise caches outlive SuspenseDemo: switching away from the
\* suspense demo leaves userCache and postsCache as they are, and switching
\* back mounts SuspenseDemo with userId 1, starts no fetch and renders the
\* leaves with the cached promises of key 1, showing the content at once when
\* they are settled; the set of cached keys never shrinks from one state to
\* the next, and an entry is replaced only by handleChangeUser, for the
\* userId it moves to.
C22_CachesOutliveTheComponent ==
    /\ [][/\ CachedKeys(userCache) \subseteq CachedKeys(userCache')
          /\ CachedKeys(postsCache) \subseteq CachedKeys(postsCache')]_vars
    /\ [][\A k \in Keys :
             ((userCache[k] # NoPromise /\ userCache'[k] # userCache[k]) \/
              (postsCache[k] # NoPromise /\ postsCache'[k] # postsCache[k])) =>
                 (userId # NotMounted /\ k = userId + 1 /\ userId' = k)]_vars
    /\ [][(userId # NotMounted /\ userId' = NotMounted) =>
             UNCHANGED <<userCache, postsCache, promises>>]_vars
    /\ [][(userId = NotMounted /\ userId' # NotMounted) =>
             /\ userId' = 1
             /\ UNCHANGED <<userCache, postsCache, promises, fetches>>
             /\ userCache[1] # NoPromise /\ postsCache[1] # NoPromise
             /\ suspenseView'.user.promise = userCache[1]
             /\ suspenseView'.posts.promise = postsCache[1]
             /\ promises[userCache[1]].status = "fulfilled" =>
                    suspenseView'.user.show = "content"]_vars

\* User 2 was loaded, another demo was chosen and then 'Suspense' again:
\* SuspenseDemo is back at userId 1 and shows the content of the settled
\* entries of key 1, for which one fetch each was ever started, while the
\* caches still hold key 2.
C22_Witness ==
    /\ activeDemo = "suspense"
    /\ userId = 1
    /\ 2 \in CachedKeys(userCache) /\ 2 \in CachedKeys(postsCache)
    /\ suspenseView.user.show = "content"
    /\ suspenseView.posts.show = "content"
    /\ suspenseView.user.promise = 1
    /\ fetches[<<"user", 1>>] = 1
    /\ fetches[<<"posts", 1>>] = 1
    /\ Len(promises) = 4

====
